---- MODULE Spec2Model ----
(***************************************************************************)
(* Crypto Analysis and Risk Analyzer (app.py): the snapshot pipeline       *)
(* fetch -> merge with user rows -> synthetic fallback -> history log ->   *)
(* cross-sectional statistics, as run by one Streamlit script run of the   *)
(* dashboard.                                                              *)
(*                                                                         *)
(* Numbers.  24h changes are whole percents; avg_change is held in         *)
(* hundredths of a percent (round(x, 2)).  Volumes are held in units of    *)
(* 1/VolDen so that fractional volumes exist; total_volume is a whole      *)
(* number (int(x)).  Symbols are sequences of characters so that           *)
(* str.upper() is computed character by character.                         *)
(***************************************************************************)
EXTENDS Integers, Sequences, FiniteSets, TLC

VARIABLES
    userFile,        \* USER_DATA_FILE: absent, unparseable, or a JSON array
    historyExists,   \* HISTORY_FILE.exists()
    historyFile,     \* HISTORY_FILE: its lines, in file order
    cmcKey,          \* whether a CMC_API_KEY is configured
    now,             \* wall clock, in seconds
    runs,            \* script runs so far
    fetched,         \* last fetch_crypto_data call: exception and value
    merged,          \* last get_combined_data: data after the user loop
    logExc,          \* exception raised inside the last log_history
    raised,          \* exception that left the last get_combined_data
    data,            \* snapshot returned by the last get_combined_data
    stats,           \* last compute_stats result
    rendered,        \* the last script run went on to draw the data table
    logged,          \* history: <<timestamp, row>> of every row of every
                     \* snapshot whose log_history call completed
    loaded,          \* last load_user_data call: exception and value
    submitted,       \* entries whose append to the user store completed
    sess,            \* the save_account calls of concurrent sessions
    accountsFile,    \* ACCOUNTS_FILE: absent, unparseable, or a JSON array
    authenticated,   \* st.session_state["authenticated"]
    login_error,     \* st.session_state["login_error"]
    page,            \* st.session_state["page"]
    widgets,         \* the text inputs of the sign-in and sign-up forms
    clicked,         \* the button that started the last script run
    message,         \* what the last script run showed with st.error / st.success
    view,            \* the page function that drew what is on the screen
    script,          \* the entry point the session runs
    refresh_count,   \* st.session_state["refresh_count"]
    cmcListing,      \* what the secondary provider answers
    top,             \* _render_cmc_trends_and_corr: its asset list
    series,          \* data["price"] handed to _render_price_line_chart
    flags,           \* its is_peak / is_valley columns
    samples,         \* the rows handed to _render_candlestick_chart
    ohlc,            \* its ohlc frame
    all_df,          \* _render_cmc_trends_and_corr: price by time and symbol
    padFill,         \* whether pct_change() of the installed pandas pads NaN
    sel,             \* the assets chosen in the "Select assets" widget
    corr             \* what the correlation step showed

pipeVars == <<userFile, historyExists, historyFile, cmcKey, now, runs, fetched,
              merged, logExc, raised, data, stats, rendered, logged>>
storeVars == <<loaded, submitted, sess>>
authVars == <<accountsFile, authenticated, login_error, page, widgets, clicked,
              message, view, script, refresh_count>>
cmcVars == <<cmcListing, top>>
candleVars == <<samples, ohlc>>
corrVars == <<all_df, padFill, sel, corr>>
chartVars == <<series, flags, candleVars, corrVars>>

vars == <<pipeVars, storeVars, authVars, cmcVars, chartVars>>

(***************************************************************************)
(* Bounds of the model.                                                    *)
(***************************************************************************)
MaxUsers == 2      \* entries in the user store
MaxApi == 2        \* records in one provider response
MaxRuns == 2       \* script runs explored
MaxTime == 1       \* last clock second explored
MaxRows == 3       \* rows of a snapshot handed to compute_stats directly
VolDen == 2        \* volumes are counted in 1/VolDen units
MaxAppends == 3    \* appends to the user store that complete
MaxGauss == 15     \* largest rnd.gauss draw, in percent, of a synthetic run
MaxPoints == 6     \* points of a price series handed to the line chart
MaxPrice == 4      \* largest price of a series whose shape is examined
MaxSamples == 3    \* rows handed to the candlestick chart
MaxSlot == 5       \* last sample time explored, in steps of five minutes
MaxDays == 3       \* time points of the price histories that are correlated
MaxRefresh == 1    \* clicks on Refresh explored

(***************************************************************************)
(* Python values.                                                          *)
(***************************************************************************)
\* None / JSON null / pandas NaN in a numeric field; below every number used.
None == -1000

\* dict.get(key, default)
Get(d, key, default) == IF key \in DOMAIN d THEN d[key] ELSE default

\* str.upper(), one character at a time
UpperChar(c) ==
    CASE c = "a" -> "A" [] c = "b" -> "B" [] c = "c" -> "C" [] c = "d" -> "D"
      [] c = "e" -> "E" [] c = "g" -> "G" [] c = "h" -> "H" [] c = "o" -> "O"
      [] c = "t" -> "T" [] c = "x" -> "X"
      [] OTHER -> c

Upper(s) == [i \in DOMAIN s |-> UpperChar(s[i])]

SeqsUpTo(S, n) == UNION {[1..k -> S] : k \in 0..n}

RECURSIVE SumSeq(_)
SumSeq(s) == IF s = <<>> THEN 0 ELSE Head(s) + SumSeq(Tail(s))

(***************************************************************************)
(* Provider A: GET /coins/markets.  A response either fails in transport,  *)
(* fails on status, carries a body that is not JSON, or carries a JSON     *)
(* array of coin objects.                                                  *)
(***************************************************************************)
CoinBtc == [id |-> "bitcoin", name |-> "Bitcoin", symbol |-> <<"b", "t", "c">>,
            current_price |-> 60, price_change_percentage_24h |-> 5,
            total_volume |-> 4 * VolDen]
CoinEth == [id |-> "ethereum", name |-> "Ethereum", symbol |-> <<"e", "t", "h">>,
            current_price |-> 28, price_change_percentage_24h |-> None,
            total_volume |-> 2 * VolDen + 1]
\* a record without the "name" key
CoinNoName == [id |-> "x", symbol |-> <<"x">>, current_price |-> 1,
               price_change_percentage_24h |-> -3, total_volume |-> 1]

\* the JSON arrays explored: k well-formed records, or a well-formed record
\* followed by one without a name
Body(k) == [i \in 1..k |-> IF i % 2 = 1 THEN CoinBtc ELSE CoinEth]

Bodies == {Body(k) : k \in 0..MaxApi} \cup {<<CoinBtc, CoinNoName>>}

Responses ==
    {[kind |-> k] : k \in {"network_error", "http_error", "malformed_json"}}
    \cup {[kind |-> "ok", body |-> b] : b \in Bodies}

\* keys read with coin[...]: a missing one raises KeyError
IndexedKeys == {"name", "symbol", "current_price", "total_volume"}

ApiRow(coin) ==
    [id |-> Get(coin, "id", ""),
     name |-> coin.name,
     symbol |-> Upper(coin.symbol),
     price |-> coin.current_price,
     change |-> IF Get(coin, "price_change_percentage_24h", None) # None
                THEN coin.price_change_percentage_24h ELSE 0,
     volume |-> coin.total_volume,
     spark |-> None,
     source |-> "api"]

\* The call's outcome: the exception it raises ("none" when it returns) and
\* the list it returns.
fetch_crypto_data(resp) ==
    CASE resp.kind \in {"network_error", "http_error"} ->
             [exc |-> "RequestException", value |-> <<>>]
      [] resp.kind = "malformed_json" ->
             [exc |-> "ValueError", value |-> <<>>]
      [] OTHER ->
             IF \E i \in DOMAIN resp.body : ~(IndexedKeys \subseteq DOMAIN resp.body[i])
             THEN [exc |-> "KeyError", value |-> <<>>]
             ELSE [exc |-> "none",
                   value |-> [i \in DOMAIN resp.body |-> ApiRow(resp.body[i])]]

(***************************************************************************)
(* Provider B: GET /cryptocurrency/listings/latest, behind an API key.     *)
(***************************************************************************)
\* "per_page": 5 of fetch_crypto_data, limit=5 of fetch_cmc_listings
PerPage == 5

CmcBtc == [id |-> "1", name |-> "Bitcoin", symbol |-> <<"B", "T", "C">>,
           quote |-> [USD |-> [price |-> 60, percent_change_24h |-> 5,
                               volume_24h |-> 4 * VolDen]]]
\* an item with a lower-case symbol and no quote
CmcEth == [id |-> "1027", name |-> "Ethereum", symbol |-> <<"e", "t", "h">>]

CmcListing(k) == [i \in 1..k |-> IF i % 2 = 1 THEN CmcBtc ELSE CmcEth]

\* the answers explored: the three failures, a JSON object without "data",
\* and listings of up to one item more than was asked for
CmcResponses ==
    {[kind |-> k] : k \in {"network_error", "http_error", "malformed_json"}}
    \cup {[kind |-> "ok", body |-> [status |-> "ok"]]}
    \cup {[kind |-> "ok", body |-> [data |-> CmcListing(k)]] : k \in 0..(PerPage + 1)}

CmcRow(item) ==
    LET q == Get(Get(item, "quote", [USD |-> [none |-> TRUE]]), "USD", [none |-> TRUE])
    IN  [id |-> Get(item, "id", "<None>"),
         name |-> Get(item, "name", "<None>"),
         symbol |-> Upper(Get(item, "symbol", <<>>)),
         price |-> Get(q, "price", None),
         change |-> Get(q, "percent_change_24h", None),
         volume |-> Get(q, "volume_24h", None),
         source |-> "cmc"]

\* key: whether _get_cmc_key() finds a key.  The exception that leaves the
\* call ("none" when it returns) and the list returned.
fetch_cmc_listings(key, limit, resp) ==
    IF ~key THEN [exc |-> "none", value |-> <<>>]
    ELSE CASE resp.kind \in {"network_error", "http_error"} ->
                  [exc |-> "RequestException", value |-> <<>>]
           [] resp.kind = "malformed_json" ->
                  [exc |-> "ValueError", value |-> <<>>]
           [] OTHER ->
                  LET items == Get(resp.body, "data", <<>>)
                  IN  [exc |-> "none",
                       value |-> [i \in DOMAIN items |-> CmcRow(items[i])]]

(***************************************************************************)
(* User entry store.                                                       *)
(***************************************************************************)
UserDoge == [name |-> "Doge", symbol |-> <<"d", "o", "g", "e">>, price |-> 1,
             change |-> 10, volume |-> 1]
UserBtc == [name |-> "My BTC", symbol |-> <<"B", "T", "C">>, price |-> 59,
            change |-> 5, volume |-> 0]

\* A JSON file is absent, holds text that json.load rejects ("bad_json"),
\* holds bytes that are not UTF-8 ("bad_utf8"), or holds a JSON array.
JsonFile(entries) == [state |-> "json", entries |-> entries]

\* the user stores explored: the first k entries
UserFile(k) ==
    JsonFile([i \in 1..k |-> IF i % 2 = 1 THEN UserDoge ELSE UserBtc])

AbsentFile == [state |-> "absent"]

UserFiles ==
    {AbsentFile, [state |-> "bad_json"], [state |-> "bad_utf8"]}
    \cup {UserFile(k) : k \in 0..MaxUsers}

\* json.load behind the exists() test and
\* except (json.JSONDecodeError, IOError): the exception that leaves the
\* call ("none" when it returns) and the list returned.  Decoding the text
\* raises UnicodeDecodeError, a ValueError that is neither of the two.
LoadJson(file) ==
    CASE file.state = "json" -> [exc |-> "none", value |-> file.entries]
      [] file.state = "bad_utf8" -> [exc |-> "UnicodeDecodeError", value |-> <<>>]
      [] OTHER -> [exc |-> "none", value |-> <<>>]

load_user_data(file) == LoadJson(file)

\* open(USER_DATA_FILE, "w") truncates the file, then json.dump writes the
\* whole list.  outcome is what the file system does with the write:
\* "open_denied" leaves the file alone, "write_failed" leaves it truncated.
save_user_data(file, entries, outcome) ==
    CASE outcome = "ok" -> [file |-> JsonFile(entries), exc |-> "none"]
      [] outcome = "write_failed" -> [file |-> [state |-> "bad_json"], exc |-> "OSError"]
      [] OTHER -> [file |-> file, exc |-> "OSError"]

\* UserRow with the symbol as stored
UserRow_raw(u) ==
    [name |-> Get(u, "name", ""),
     symbol |-> Get(u, "symbol", <<>>),
     price |-> Get(u, "price", 0),
     change |-> Get(u, "change", 0),
     volume |-> Get(u, "volume", 0),
     source |-> "user"]

UserRow(u) ==
    [name |-> Get(u, "name", ""),
     symbol |-> Upper(Get(u, "symbol", <<>>)),
     price |-> Get(u, "price", 0),
     change |-> Get(u, "change", 0),
     volume |-> Get(u, "volume", 0),
     source |-> "user"]

\* MergeUserRows with a user row dropped when an API row has its symbol
MergeUserRows_dedup(api, users) ==
    api \o SelectSeq([i \in DOMAIN users |-> UserRow(users[i])],
                     LAMBDA u : \A i \in DOMAIN api : api[i].symbol # u.symbol)

\* get_combined_data, the loop over load_user_data(): data.append(...), with
\* float() of a stored number the same number
MergeUserRows(api, users) ==
    api \o [i \in DOMAIN users |-> UserRow(users[i])]

(***************************************************************************)
(* Accounts.                                                               *)
(***************************************************************************)
USERNAME == "admin@gmail.com"
PASSWORD == "123456"

\* hashlib.sha256(pw.encode("utf-8")).hexdigest(), its first eight digits
hash_pw(pw) ==
    CASE pw = "" -> "e3b0c442"
      [] pw = "123456" -> "8d969eef"
      [] pw = "pw" -> "30c952fa"
      [] OTHER -> "bc847805"

\* a.get(key) of a missing key: None, which equals no string
NoneStr == "<None>"

load_accounts(file) == LoadJson(file)

\* save_account without the test for an existing email
save_account_nodup(file, email, pw_hash, outcome) ==
    LET l == load_accounts(file)
    IN  IF l.exc # "none" THEN [file |-> file, created |-> FALSE, exc |-> l.exc]
        ELSE CASE outcome = "ok" ->
                      [file |-> JsonFile(Append(l.value, [email |-> email, pw |-> pw_hash])),
                       created |-> TRUE, exc |-> "none"]
               [] outcome = "write_failed" ->
                      [file |-> [state |-> "bad_json"], created |-> FALSE, exc |-> "OSError"]
               [] OTHER -> [file |-> file, created |-> FALSE, exc |-> "OSError"]

\* The file left behind, the value returned, and the exception that leaves
\* the call ("none" when it returns).  open(ACCOUNTS_FILE, "w") truncates.
save_account(file, email, pw_hash, outcome) ==
    LET l == load_accounts(file)
    IN  IF l.exc # "none" THEN [file |-> file, created |-> FALSE, exc |-> l.exc]
        ELSE IF \E i \in DOMAIN l.value : Get(l.value[i], "email", NoneStr) = email
        THEN [file |-> file, created |-> FALSE, exc |-> "none"]
        ELSE CASE outcome = "ok" ->
                      [file |-> JsonFile(Append(l.value, [email |-> email, pw |-> pw_hash])),
                       created |-> TRUE, exc |-> "none"]
               [] outcome = "write_failed" ->
                      [file |-> [state |-> "bad_json"], created |-> FALSE, exc |-> "OSError"]
               [] OTHER -> [file |-> file, created |-> FALSE, exc |-> "OSError"]

(***************************************************************************)
(* Synthetic fallback.  random.Random(seed), seeded with the clock plus the *)
(* refresh counter, is a stream of draws; the model takes the stream's     *)
(* draws for the five assets from a small set, whatever the seed.  Prices  *)
(* are in cents, the jitter in 1/10000.                                    *)
(***************************************************************************)
Max(a, b) == IF a >= b THEN a ELSE b
Min(a, b) == IF a <= b THEN a ELSE b
Abs(a) == IF a >= 0 THEN a ELSE -a

Assets ==
    << [name |-> "Bitcoin", sym |-> <<"B", "T", "C">>, base |-> 6000000],
       [name |-> "Ethereum", sym |-> <<"E", "T", "H">>, base |-> 280000],
       [name |-> "Solana", sym |-> <<"S", "O", "L">>, base |-> 11000],
       [name |-> "XRP", sym |-> <<"X", "R", "P">>, base |-> 55],
       [name |-> "Cardano", sym |-> <<"A", "D", "A">>, base |-> 45] >>

\* per asset: rnd.gauss(drift, 3.0) in percent, the price jitter
\* rnd.uniform(-0.0075, 0.0075) in 1/10000, and vol_base * vol_factor
Draws ==
    { [gauss |-> <<1, -2, 0, 3, -1>>, jitter |-> <<0, 10, -10, 0, 5>>,
       vol |-> <<30, 9, 4, 2, 1>>],
      [gauss |-> <<15, -15, 12, -12, -99>>, jitter |-> <<75, -75, 0, 75, -75>>,
       vol |-> <<40, 20, 6, 3, 2>>] }

\* str.lower(), one character at a time
LowerChar(c) ==
    CASE c = "A" -> "a" [] c = "B" -> "b" [] c = "C" -> "c" [] c = "D" -> "d"
      [] c = "E" -> "e" [] c = "H" -> "h" [] c = "L" -> "l" [] c = "O" -> "o"
      [] c = "P" -> "p" [] c = "R" -> "r" [] c = "S" -> "s" [] c = "T" -> "t"
      [] c = "X" -> "x"
      [] OTHER -> c

Lower(s) == [i \in DOMAIN s |-> LowerChar(s[i])]

\* PlaceholderRow without the clamp of the change
PlaceholderRow_unclamped(a, gauss, jitter, vol) ==
    LET change == gauss
        p1 == (a.base * (100 + change)) \div 100
        price == Max(1, p1 + (p1 * jitter) \div 10000)
    IN  [id |-> Lower(a.sym),
         name |-> a.name,
         symbol |-> a.sym,
         price |-> price,
         change |-> change,
         volume |-> ((vol * (40 + Abs(change))) \div 40) * VolDen,
         spark |-> None,
         source |-> "demo"]

PlaceholderRow(a, gauss, jitter, vol) ==
    LET change == Max(-12, Min(12, gauss))
        p1 == (a.base * (100 + change)) \div 100
        price == Max(1, p1 + (p1 * jitter) \div 10000)
    IN  [id |-> Lower(a.sym),
         name |-> a.name,
         symbol |-> a.sym,
         price |-> price,
         change |-> change,
         volume |-> ((vol * (40 + Abs(change))) \div 40) * VolDen,
         spark |-> None,
         source |-> "demo"]

placeholder_live_data(draw) ==
    [i \in DOMAIN Assets |->
        PlaceholderRow(Assets[i], draw.gauss[i], draw.jitter[i], draw.vol[i])]

(***************************************************************************)
(* History log.  A line of the file is the header or one record.           *)
(***************************************************************************)
HistoryColumns == <<"time", "name", "symbol", "price", "change", "volume", "source">>

HeaderLine == [kind |-> "header", cols |-> HistoryColumns]

HistoryRow(e, ts) ==
    [kind |-> "row",
     time |-> ts,
     name |-> Get(e, "name", ""),
     symbol |-> Get(e, "symbol", <<>>),
     price |-> Get(e, "price", 0),
     change |-> Get(e, "change", 0),
     volume |-> Get(e, "volume", 0),
     source |-> Get(e, "source", "")]

HistoryRows(entries, ts) == [i \in DOMAIN entries |-> HistoryRow(entries[i], ts)]

\* What the file system does with the write:
\*   "ok"           the lines reach the file;
\*   "open_denied"  open(..., "a") fails: nothing is created or written;
\*   "write_failed" open(..., "a") succeeds, creating the file when absent,
\*                  and flushing the buffered lines fails: nothing is written.
WriteOutcomes == {"ok", "open_denied", "write_failed"}

\* to_csv opening the file with mode="w"
to_csv_truncate(file, exists, rows, write_header, outcome) ==
    CASE outcome = "ok" ->
             [file |-> (IF write_header THEN <<HeaderLine>> ELSE <<>>) \o rows,
              exists |-> TRUE, exc |-> "none"]
      [] outcome = "write_failed" ->
             [file |-> <<>>, exists |-> TRUE, exc |-> "OSError"]
      [] OTHER ->
             [file |-> file, exists |-> exists, exc |-> "OSError"]

\* df.to_csv(HISTORY_FILE, mode="a", header=write_header, index=False)
to_csv(file, exists, rows, write_header, outcome) ==
    CASE outcome = "ok" ->
             [file |-> file \o (IF write_header THEN <<HeaderLine>> ELSE <<>>) \o rows,
              exists |-> TRUE, exc |-> "none"]
      [] outcome = "write_failed" ->
             [file |-> file, exists |-> TRUE, exc |-> "OSError"]
      [] OTHER ->
             [file |-> file, exists |-> exists, exc |-> "OSError"]

log_history(entries, ts, file, exists, outcome) ==
    IF entries = <<>>
    THEN [file |-> file, exists |-> exists, exc |-> "none"]
    ELSE to_csv(file, exists, HistoryRows(entries, ts), ~exists, outcome)

(***************************************************************************)
(* get_combined_data: the exception that leaves it ("none" when it         *)
(* returns), the data it returns, and the history file it leaves behind.   *)
(***************************************************************************)
CaughtByCombined == {"RequestException", "ValueError"}

get_combined_data(resp, users, draw, ts, file, exists, outcome) ==
    LET f == fetch_crypto_data(resp)
        api == IF f.exc = "none" THEN f.value ELSE <<>>
        u == load_user_data(users)
        m == MergeUserRows(api, u.value)
        d == IF m = <<>> THEN placeholder_live_data(draw) ELSE m
        w == log_history(d, ts, file, exists, outcome)
    IN  IF f.exc \notin CaughtByCombined \cup {"none"}
        THEN [exc |-> f.exc, fetched |-> f, merged |-> <<>>, data |-> <<>>,
              file |-> file, exists |-> exists, logExc |-> "none"]
        ELSE IF u.exc # "none"
        THEN [exc |-> u.exc, fetched |-> f, merged |-> <<>>, data |-> <<>>,
              file |-> file, exists |-> exists, logExc |-> "none"]
        ELSE [exc |-> w.exc, fetched |-> f, merged |-> m,
              data |-> IF w.exc = "none" THEN d ELSE <<>>,
              file |-> w.file, exists |-> w.exists, logExc |-> w.exc]

(***************************************************************************)
(* compute_stats.                                                          *)
(***************************************************************************)
\* a Python None where a dict is expected; a variable not yet assigned
NoRow == [none |-> TRUE]
Unset == [unset |-> TRUE]

\* round(num / den, 0) for den > 0: to nearest, a tie to the even neighbour
RoundHalfEven(num, den) ==
    LET q == num \div den
        r == num - q * den
    IN  IF 2 * r < den THEN q
        ELSE IF 2 * r > den THEN q + 1
        ELSE IF q % 2 = 0 THEN q ELSE q + 1

\* TotalVolume with int(round(total_volume))
TotalVolume_rounded(rows) ==
    RoundHalfEven(SumSeq([i \in DOMAIN rows |-> rows[i].volume]), VolDen)

\* df["volume"].sum(), then int(total_volume)
TotalVolume(rows) ==
    SumSeq([i \in DOMAIN rows |-> rows[i].volume]) \div VolDen

\* df["change"].replace([None], 0).fillna(0)
Changes(rows) ==
    [i \in DOMAIN rows |-> IF rows[i].change = None THEN 0 ELSE rows[i].change]

\* AvgChange without the fillna(0): Series.mean() skips NaN
AvgChange_skipna(rows) ==
    LET nn == {i \in DOMAIN rows : rows[i].change # None}
    IN  IF nn = {} THEN 0
        ELSE RoundHalfEven(100 * SumSeq(Changes(rows)), Cardinality(nn))

\* round(float(changes.mean()), 2), in hundredths
AvgChange(rows) ==
    IF Len(rows) = 0 THEN 0
    ELSE RoundHalfEven(100 * SumSeq(Changes(rows)), Len(rows))

\* The positions df.sort_values("change", ascending=...).iloc[0] can come
\* from.  NaN sorts last; the default kind, quicksort, is not a stable sort,
\* so among rows of equal change any may come first.
SortFirst(rows, ascending) ==
    LET nn == {i \in DOMAIN rows : rows[i].change # None}
    IN  IF nn = {} THEN {1}
        ELSE {i \in nn : \A j \in nn :
                 IF ascending THEN rows[i].change <= rows[j].change
                 ELSE rows[i].change >= rows[j].change}

\* row i of pd.DataFrame(rows) as a dict: every column of the frame, NaN
\* where the row has no such key
FrameRow(rows, i) ==
    [c \in UNION {DOMAIN rows[j] : j \in DOMAIN rows} |-> Get(rows[i], c, None)]

\* g and l are the positions the two sorts put first
compute_stats(crypto_list, g, l, ts) ==
    IF crypto_list = <<>>
    THEN [last_updated |-> ts, total_volume |-> 0, avg_change |-> 0,
          top_gainer |-> NoRow, top_loser |-> NoRow, count |-> 0]
    ELSE [last_updated |-> ts,
          total_volume |-> TotalVolume(crypto_list),
          avg_change |-> AvgChange(crypto_list),
          top_gainer |-> FrameRow(crypto_list, g),
          top_loser |-> FrameRow(crypto_list, l),
          count |-> Len(crypto_list)]

\* s is a result compute_stats can return for crypto_list
StatsResult(s, crypto_list, ts) ==
    \E g \in SortFirst(crypto_list, FALSE), l \in SortFirst(crypto_list, TRUE) :
        s = compute_stats(crypto_list, g, l, ts)

(***************************************************************************)
(* The dashboard: one Streamlit script run of _show_dashboard.             *)
(***************************************************************************)
\* the parts of the state a specification does not exercise, as a fresh
\* session on a fresh installation has them
NoWidgets == [su |-> "", sp |-> "", reg_email |-> "", reg_pw1 |-> "", reg_pw2 |-> "",
              login_username |-> "", login_password |-> ""]

PipeIdle ==
    /\ historyExists = FALSE
    /\ historyFile = <<>>
    /\ now = 0
    /\ runs = 0
    /\ fetched = Unset
    /\ merged = <<>>
    /\ logExc = "none"
    /\ raised = "none"
    /\ data = <<>>
    /\ stats = Unset
    /\ rendered = FALSE
    /\ logged = <<>>

StoreIdle == loaded = Unset /\ submitted = <<>> /\ sess = <<>>

AuthIdle ==
    /\ accountsFile = AbsentFile
    /\ authenticated = FALSE
    /\ login_error = ""
    /\ page = "welcome"
    /\ widgets = NoWidgets
    /\ clicked = "none"
    /\ message = ""
    /\ view = "welcome" /\ script = "app.py" /\ refresh_count = 0

CmcIdle ==
    /\ cmcKey = FALSE
    /\ cmcListing = [kind |-> "ok", body |-> [data |-> <<>>]]
    /\ top = Unset

CandleIdle == samples = <<>> /\ ohlc = Unset
CorrIdle == all_df = <<>> /\ padFill = TRUE /\ sel = {} /\ corr = Unset
ChartIdle == series = <<>> /\ flags = Unset /\ CandleIdle /\ CorrIdle

Init ==
    /\ StoreIdle /\ AuthIdle /\ ChartIdle
    /\ cmcListing = [kind |-> "ok", body |-> [data |-> <<>>]]
    /\ top = Unset
    /\ userFile \in UserFiles
    /\ historyExists = FALSE
    /\ historyFile = <<>>
    /\ cmcKey \in BOOLEAN
    /\ now = 0
    /\ runs = 0
    /\ fetched = Unset
    /\ merged = <<>>
    /\ logExc = "none"
    /\ raised = "none"
    /\ data = <<>>
    /\ stats = Unset
    /\ rendered = FALSE
    /\ logged = <<>>

\* One script run: get_combined_data, compute_stats, the data table.  An
\* exception ends the run before the table is drawn.
ShowDashboard(resp, outcome, draw) ==
    \E r \in {get_combined_data(resp, userFile, draw, now, historyFile,
                                historyExists, outcome)} :
        /\ runs' = runs + 1
        /\ fetched' = r.fetched
        /\ merged' = r.merged
        /\ logExc' = r.logExc
        /\ raised' = r.exc
        /\ data' = r.data
        /\ historyFile' = r.file
        /\ historyExists' = r.exists
        /\ logged' = logged \o [i \in DOMAIN r.data |-> <<now, r.data[i]>>]
        /\ IF r.exc = "none" THEN StatsResult(stats', r.data, now) ELSE stats' = stats
        /\ rendered' = (r.exc = "none")
        /\ UNCHANGED <<userFile, cmcKey, now>>
        /\ UNCHANGED <<storeVars, authVars, cmcVars, chartVars>>

\* the random stream is read only when there is nothing to merge
StreamsRead(resp) ==
    IF load_user_data(userFile).value = <<>> /\ fetch_crypto_data(resp).value = <<>>
    THEN Draws ELSE {CHOOSE d \in Draws : TRUE}

Render ==
    /\ runs < MaxRuns
    /\ \E resp \in Responses, outcome \in WriteOutcomes :
           \E draw \in StreamsRead(resp) :
               ShowDashboard(resp, outcome, draw)

\* datetime.now() moves on
Tick ==
    /\ now < MaxTime
    /\ now' = now + 1
    /\ UNCHANGED <<userFile, historyExists, historyFile, cmcKey, runs, fetched,
                   merged, logExc, raised, data, stats, rendered, logged>>
    /\ UNCHANGED <<storeVars, authVars, cmcVars, chartVars>>

Next == Render \/ Tick

Spec == Init /\ [][Next]_vars

(***************************************************************************)
(* compute_stats on its own: any snapshot of up to MaxRows rows.           *)
(***************************************************************************)
RowA == [name |-> "BTC", symbol |-> <<"B", "T", "C">>, price |-> 60, change |-> 5,
         volume |-> 3, source |-> "api"]
RowB == [name |-> "SOL", symbol |-> <<"S", "O", "L">>, price |-> 11, change |-> 5,
         volume |-> 0, source |-> "api"]
RowC == [name |-> "ETH", symbol |-> <<"E", "T", "H">>, price |-> 28, change |-> -3,
         volume |-> 1, source |-> "api"]
RowD == [name |-> "XRP", symbol |-> <<"X", "R", "P">>, price |-> 1, change |-> None,
         volume |-> 4, source |-> "cmc"]
RowE == [name |-> "userCoin", symbol |-> <<"U", "C">>, price |-> 2, change |-> 10,
         volume |-> 2, source |-> "user"]

StatRows == {RowA, RowB, RowC, RowD, RowE}

InitStats ==
    /\ StoreIdle /\ AuthIdle /\ CmcIdle /\ ChartIdle
    /\ data \in SeqsUpTo(StatRows, MaxRows)
    /\ userFile = AbsentFile
    /\ historyExists = FALSE
    /\ historyFile = <<>>
    /\ cmcKey = FALSE
    /\ now = 0
    /\ runs = 0
    /\ fetched = Unset
    /\ merged = <<>>
    /\ logExc = "none"
    /\ raised = "none"
    /\ stats = Unset
    /\ rendered = FALSE
    /\ logged = <<>>

ComputeStats ==
    /\ stats = Unset
    /\ StatsResult(stats', data, now)
    /\ UNCHANGED <<userFile, historyExists, historyFile, cmcKey, now, runs,
                   fetched, merged, logExc, raised, data, rendered, logged>>
    /\ UNCHANGED <<storeVars, authVars, cmcVars, chartVars>>

NextStats == ComputeStats

SpecStats == InitStats /\ [][NextStats]_vars

(***************************************************************************)
(* _render_price_line_chart: the peak and valley markers.  A series is     *)
(* data["price"] in time order; position k of the sequence is iloc[k - 1]. *)
(* A price that pd.to_numeric could not read is NaN.                       *)
(***************************************************************************)
\* float comparison: False when either side is NaN
Gt(a, b) == a # None /\ b # None /\ a > b
Lt(a, b) == a # None /\ b # None /\ a < b

\* s.iloc[a:b] for 0 <= a: the slice stops at the end of the series
Slice(s, a, b) == SubSeq(s, a + 1, Min(b, Len(s)))

\* the builtins max() and min() over a non-empty slice: the first item,
\* replaced by each later item that compares greater (smaller)
RECURSIVE PyMax(_)
PyMax(s) ==
    IF Len(s) = 1 THEN s[1]
    ELSE LET m == PyMax(SubSeq(s, 1, Len(s) - 1))
         IN  IF Gt(s[Len(s)], m) THEN s[Len(s)] ELSE m

RECURSIVE PyMin(_)
PyMin(s) ==
    IF Len(s) = 1 THEN s[1]
    ELSE LET m == PyMin(SubSeq(s, 1, Len(s) - 1))
         IN  IF Lt(s[Len(s)], m) THEN s[Len(s)] ELSE m

\* range(2, len(data) - 2) widened by one at its end
LoopRange_wide(n) == 2..(n - 2)

\* range(2, len(data) - 2)
LoopRange(n) == 2..(n - 3)

\* the slice after i taken as iloc[i+1:i+4]
Following_three(s, i) == Slice(s, i + 1, i + 4)

\* the slice before i taken as iloc[i-2:i-1]
Preceding_skip(s, i) == Slice(s, i - 2, i - 1)

\* data["price"].iloc[i-2:i] and data["price"].iloc[i+1:i+3]
Preceding(s, i) == Slice(s, i - 2, i)
Following(s, i) == Slice(s, i + 1, i + 3)

\* the columns is_peak and is_valley after the loop
PeakFlags(s) ==
    [is_peak |->
        [k \in DOMAIN s |->
            /\ k - 1 \in LoopRange(Len(s))
            /\ Gt(s[k], PyMax(Preceding(s, k - 1)))
            /\ Gt(s[k], PyMax(Following(s, k - 1)))],
     is_valley |->
        [k \in DOMAIN s |->
            /\ k - 1 \in LoopRange(Len(s))
            /\ Lt(s[k], PyMin(Preceding(s, k - 1)))
            /\ Lt(s[k], PyMin(Following(s, k - 1)))]]

ChartPrices == {1, 2, 3, None}

InitChart ==
    /\ PipeIdle /\ userFile = AbsentFile /\ StoreIdle /\ AuthIdle /\ CmcIdle
    /\ series \in SeqsUpTo(ChartPrices, MaxPoints)
    /\ flags = Unset
    /\ CandleIdle /\ CorrIdle

RenderPriceLineChart ==
    /\ flags = Unset
    /\ flags' = PeakFlags(series)
    /\ UNCHANGED <<pipeVars, storeVars, authVars, cmcVars, series, candleVars,
                   corrVars>>

NextChart == RenderPriceLineChart

SpecChart == InitChart /\ [][NextChart]_vars

(***************************************************************************)
(* The line chart over numeric series of five points and more, with a      *)
(* price range wide enough for a rise and a fall of several steps.         *)
(***************************************************************************)
ShapePrices == 1..MaxPrice

InitShape ==
    /\ PipeIdle /\ userFile = AbsentFile /\ StoreIdle /\ AuthIdle /\ CmcIdle
    /\ \E n \in 5..MaxPoints : series \in [1..n -> ShapePrices]
    /\ flags = Unset
    /\ CandleIdle /\ CorrIdle

SpecShape == InitShape /\ [][NextChart]_vars

(***************************************************************************)
(* _render_candlestick_chart: the OHLC frame.  A sample is a row of the    *)
(* history of one symbol, its time in minutes since midnight and its price *)
(* after pd.to_numeric (NaN when it could not be read).  The caller hands  *)
(* the rows over sorted by time.                                           *)
(***************************************************************************)
\* resample_period, in minutes, chosen by len(data)
ResamplePeriod(n_points) ==
    IF n_points > 1000 THEN 60
    ELSE IF n_points > 200 THEN 30
    ELSE 10

\* the left edge of the bin that holds time t: bins are closed on the left,
\* labelled by their left edge and anchored at midnight
BinLabel(t, w) == (t \div w) * w

\* the bins resample() lays from the first sample's bin to the last one's
BinLabels(rows, w) ==
    IF rows = <<>> THEN <<>>
    ELSE LET lo == BinLabel(rows[1].time, w)
             hi == BinLabel(rows[Len(rows)].time, w)
         IN  [k \in 1..((hi - lo) \div w + 1) |-> lo + (k - 1) * w]

\* the prices of the rows of one bin, in row order
BinPrices(rows, w, label) ==
    LET Keep(r) == BinLabel(r.time, w) = label
        pick == SelectSeq(rows, Keep)
    IN  [k \in DOMAIN pick |-> pick[k].price]

\* the numbers among them: each of the four aggregations skips NaN
NotNaN(x) == x # None
Valid(ps) == SelectSeq(ps, NotNaN)

\* "first" without skipping NaN
First_raw(ps) == IF ps = <<>> THEN None ELSE ps[1]

\* "first", "max", "min", "last": NaN for a bin without a number
First(ps) == IF Valid(ps) = <<>> THEN None ELSE Valid(ps)[1]
Last(ps) == IF Valid(ps) = <<>> THEN None ELSE Valid(ps)[Len(Valid(ps))]
AggMax(ps) == IF Valid(ps) = <<>> THEN None ELSE PyMax(Valid(ps))
AggMin(ps) == IF Valid(ps) = <<>> THEN None ELSE PyMin(Valid(ps))

\* one row of resample(...).agg(["first", "max", "min", "last"]), renamed
\* to open, high, low, close
OhlcRow(rows, w, label) ==
    LET ps == BinPrices(rows, w, label)
    IN  [time |-> label, open |-> First(ps), high |-> AggMax(ps),
         low |-> AggMin(ps), close |-> Last(ps)]

\* the color column of a row that dropna() kept
Color(row) == IF row.close >= row.open THEN "#22c55e" ELSE "#ef4444"

\* .dropna(): rows with a NaN in any column go
HasNoNaN(row) ==
    row.open # None /\ row.high # None /\ row.low # None /\ row.close # None

\* the ohlc frame of the rows
Resample(rows) ==
    LET w == ResamplePeriod(Len(rows))
        labels == BinLabels(rows, w)
        all == [k \in DOMAIN labels |-> OhlcRow(rows, w, labels[k])]
        kept == SelectSeq(all, HasNoNaN)
    IN  [k \in DOMAIN kept |->
            [time |-> kept[k].time, open |-> kept[k].open,
             high |-> kept[k].high, low |-> kept[k].low,
             close |-> kept[k].close, color |-> Color(kept[k])]]

CandlePrices == {1, 2, None}

\* time-ordered rows, their times on a grid of five minutes
SampleRows ==
    {rows \in UNION {[1..n -> [time : {5 * k : k \in 0..MaxSlot},
                               price : CandlePrices]] : n \in 1..MaxSamples} :
        \A k \in 1..(Len(rows) - 1) : rows[k].time <= rows[k + 1].time}

InitCandle ==
    /\ PipeIdle /\ userFile = AbsentFile /\ StoreIdle /\ AuthIdle /\ CmcIdle
    /\ series = <<>> /\ flags = Unset
    /\ samples \in SampleRows
    /\ ohlc = Unset
    /\ CorrIdle

RenderCandlestickChart ==
    /\ ohlc = Unset
    /\ ohlc' = [rows |-> Resample(samples)]
    /\ UNCHANGED <<pipeVars, storeVars, authVars, cmcVars, series, flags, samples,
                   corrVars>>

NextCandle == RenderCandlestickChart

SpecCandle == InitCandle /\ [][NextCandle]_vars

(***************************************************************************)
(* _render_cmc_trends_and_corr: the correlation of returns.  all_df is     *)
(* taken as the prices it holds by time and symbol, NaN (None) where a     *)
(* symbol has no row at a time; every symbol has a price somewhere, since  *)
(* an empty history is replaced by a synthetic one.                        *)
(***************************************************************************)
CorrSymbols == {"BTC", "ETH"}

\* pivot_table(index="time", columns="symbol", values="price"): a row for
\* each time that has a price, in time order
PivotTimes(df) ==
    LET Priced(t) == \E sym \in CorrSymbols : df[t][sym] # None
        RECURSIVE Upto(_)
        Upto(t) == IF t = 0 THEN <<>>
                   ELSE IF Priced(t) THEN Append(Upto(t - 1), t)
                   ELSE Upto(t - 1)
    IN  Upto(Len(df))

\* the price pct_change() divides: the cell itself, or with padding the
\* last price at or before it
RECURSIVE Filled(_, _, _, _, _)
Filled(df, times, sym, k, pad) ==
    IF k = 0 THEN None
    ELSE IF df[times[k]][sym] # None THEN df[times[k]][sym]
    ELSE IF pad THEN Filled(df, times, sym, k - 1, pad)
    ELSE None

\* row k of pivot.pct_change() has a number for sym
HasReturn(df, times, sym, k, pad) ==
    /\ k >= 2
    /\ Filled(df, times, sym, k, pad) # None
    /\ Filled(df, times, sym, k - 1, pad) # None

\* the return as a fraction <<numerator, denominator>>
Return(df, times, sym, k, pad) ==
    <<Filled(df, times, sym, k, pad) - Filled(df, times, sym, k - 1, pad),
      Filled(df, times, sym, k - 1, pad)>>

\* .dropna(how="any"): the rows with a return for every column
ReturnRows(df, pad) ==
    LET times == PivotTimes(df)
    IN  {k \in DOMAIN times :
            \A sym \in CorrSymbols : HasReturn(df, times, sym, k, pad)}

\* the returns of sym over the rows are not all equal
Varies(df, sym, rows, pad) ==
    LET times == PivotTimes(df)
    IN  \E j, k \in rows :
            Return(df, times, sym, j, pad)[1] * Return(df, times, sym, k, pad)[2]
                # Return(df, times, sym, k, pad)[1] * Return(df, times, sym, j, pad)[2]

\* returns.corr(): a cell is a number when there are two rows or more and
\* both columns vary, and NaN otherwise
Corr(df, rows, pad) ==
    [a \in CorrSymbols |-> [b \in CorrSymbols |->
        IF Cardinality(rows) >= 2 /\ Varies(df, a, rows, pad) /\ Varies(df, b, rows, pad)
        THEN "number" ELSE "NaN"]]

\* lines 1017-1024
Correlation(df, pad) ==
    LET rows == ReturnRows(df, pad)
    IN  IF rows = {}
        THEN [shown |-> "info", text |-> "Not enough data for correlation."]
        ELSE [shown |-> "matrix", text |-> "Correlation matrix (daily returns)",
              points |-> Cardinality(rows), cells |-> Corr(df, rows, pad)]

CorrPrices == {1, 2, None}

PriceTables ==
    {df \in [1..MaxDays -> [CorrSymbols -> CorrPrices]] :
        \A sym \in CorrSymbols : \E t \in 1..MaxDays : df[t][sym] # None}

InitCorr ==
    /\ PipeIdle /\ userFile = AbsentFile /\ StoreIdle /\ AuthIdle /\ CmcIdle
    /\ series = <<>> /\ flags = Unset /\ CandleIdle
    /\ all_df \in PriceTables
    /\ padFill \in BOOLEAN
    /\ sel = CorrSymbols
    /\ corr = Unset

\* st.multiselect("Select assets", ...): the user changes the selection
SelectAssets ==
    /\ corr = Unset
    /\ \E chosen \in (SUBSET CorrSymbols) \ {{}, sel} : sel' = chosen
    /\ UNCHANGED <<pipeVars, storeVars, authVars, cmcVars, series, flags,
                   candleVars, all_df, padFill, corr>>

RenderCorrelation ==
    /\ corr = Unset
    /\ corr' = Correlation(all_df, padFill)
    /\ UNCHANGED <<pipeVars, storeVars, authVars, cmcVars, series, flags,
                   candleVars, all_df, padFill, sel>>

NextCorr == SelectAssets \/ RenderCorrelation

SpecCorr == InitCorr /\ [][NextCorr]_vars

(***************************************************************************)
(* The two providers: one dashboard run, its snapshot and the asset list   *)
(* of its CMC section, over answers of any length from both providers.     *)
(***************************************************************************)
LongResponses ==
    {[kind |-> k] : k \in {"network_error", "http_error", "malformed_json"}}
    \cup {[kind |-> "ok", body |-> Body(k)] : k \in 0..(PerPage + 1)}

InitProviders ==
    /\ PipeIdle /\ StoreIdle /\ AuthIdle /\ ChartIdle
    /\ userFile \in {AbsentFile, UserFile(1)}
    /\ cmcKey \in BOOLEAN
    /\ cmcListing \in CmcResponses
    /\ top = Unset

\* get_combined_data and compute_stats of the run
Snapshot ==
    /\ runs = 0
    /\ \E resp \in LongResponses : \E draw \in StreamsRead(resp) :
           ShowDashboard(resp, "ok", draw)

\* _render_cmc_trends_and_corr, up to its list of assets
CmcTrends(draw) ==
    LET r == fetch_cmc_listings(cmcKey, PerPage, cmcListing)
        fetchedTop == IF r.exc = "none" THEN r.value ELSE <<>>
    IN  /\ runs = 1
        /\ rendered
        /\ top = Unset
        /\ top' = [rows |-> IF fetchedTop = <<>> THEN placeholder_live_data(draw)
                            ELSE fetchedTop]
        /\ UNCHANGED <<pipeVars, storeVars, authVars, cmcListing, chartVars>>

RenderCmcTrends == \E draw \in Draws : CmcTrends(draw)

NextProviders == Snapshot \/ RenderCmcTrends

SpecProviders == InitProviders /\ [][NextProviders]_vars

(***************************************************************************)
(* The synthetic fallback on its own: one dashboard run with the provider  *)
(* down and no user store, over a range of random streams.                 *)
(***************************************************************************)
DemoDraws ==
    {[gauss |-> [i \in DOMAIN Assets |-> IF i % 2 = 1 THEN g ELSE -g],
      jitter |-> [i \in DOMAIN Assets |-> j],
      vol |-> [i \in DOMAIN Assets |-> v]] :
        g \in (-MaxGauss)..MaxGauss, j \in {-75, 0, 75}, v \in {1, 30}}

InitDemo ==
    /\ PipeIdle /\ userFile = AbsentFile /\ StoreIdle /\ AuthIdle /\ CmcIdle
    /\ ChartIdle

DemoRun ==
    /\ runs = 0
    /\ \E draw \in DemoDraws, outcome \in WriteOutcomes :
           ShowDashboard([kind |-> "network_error"], outcome, draw)

NextDemo == DemoRun

SpecDemo == InitDemo /\ [][NextDemo]_vars

(***************************************************************************)
(* The user store on its own.  The program has no caller of               *)
(* save_user_data; an append is the store contract's                       *)
(* save(load() + [entry]), made of the two functions the program has.     *)
(***************************************************************************)
StoreOutcomes == {"ok", "open_denied", "write_failed"}

\* an entry with a name only
UserBare == [name |-> "Bare"]

NewEntries == {UserDoge, UserBtc, UserBare}

\* the store starts as any of the files that hold no entry
InitStore ==
    /\ PipeIdle /\ StoreIdle /\ AuthIdle /\ CmcIdle /\ ChartIdle
    /\ userFile \in {AbsentFile, UserFile(0), [state |-> "bad_json"],
                      [state |-> "bad_utf8"]}

AddUserEntry(e, outcome) ==
    LET l == load_user_data(userFile)
        w == save_user_data(userFile, Append(l.value, e), outcome)
    IN  /\ Len(submitted) < MaxAppends
        /\ loaded' = Unset
        /\ UNCHANGED sess
        /\ IF l.exc # "none"
           THEN UNCHANGED <<userFile, submitted>>
           ELSE /\ userFile' = w.file
                /\ submitted' = IF w.exc = "none" THEN Append(submitted, e)
                                ELSE submitted
        /\ UNCHANGED <<historyExists, historyFile, cmcKey, now, runs, fetched,
                       merged, logExc, raised, data, stats, rendered, logged>>
        /\ UNCHANGED <<authVars, cmcVars, chartVars>>

AddEntry == \E e \in NewEntries, outcome \in StoreOutcomes : AddUserEntry(e, outcome)

LoadStore ==
    /\ loaded = Unset
    /\ loaded' = load_user_data(userFile)
    /\ UNCHANGED <<pipeVars, submitted, sess, authVars, cmcVars, chartVars>>

NextStore == AddEntry \/ LoadStore

SpecStore == InitStore /\ [][NextStore]_vars

(***************************************************************************)
(* Sign-in and sign-up: the pages the script shows while the session is    *)
(* not authenticated, and Logout.  A widget that a run does not draw loses *)
(* its value.                                                              *)
(***************************************************************************)
Emails == {"", USERNAME, "a@x.io"}
Passwords == {"", PASSWORD, "pw"}

Account(email, pw) == [email |-> email, pw |-> hash_pw(pw)]

\* the dispatch keyed on the page alone
Dispatch_bypage(auth, pg) ==
    IF pg = "dashboard" THEN "dashboard"
    ELSE IF pg = "login" THEN "login"
    ELSE IF pg = "signup" THEN "signup"
    ELSE "welcome"

\* the page function a script run of app.py calls
Dispatch(auth, pg) ==
    IF auth THEN "dashboard"
    ELSE IF pg = "welcome" THEN "welcome"
    ELSE IF pg = "login" THEN "login"
    ELSE IF pg = "signup" THEN "signup"
    ELSE "welcome"

\* the page function main() of streamlit_app.py calls
main(auth) == IF ~auth THEN "login" ELSE "dashboard"

InitAuth ==
    /\ PipeIdle /\ userFile = AbsentFile /\ StoreIdle /\ CmcIdle /\ ChartIdle
    /\ accountsFile \in {AbsentFile, [state |-> "bad_json"], [state |-> "bad_utf8"],
                          JsonFile(<<>>), JsonFile(<<Account("a@x.io", "pw")>>)}
    /\ authenticated = FALSE
    /\ login_error = ""
    /\ page = "welcome"
    /\ widgets = NoWidgets
    /\ clicked = "none"
    /\ message = ""
    /\ view = "welcome" /\ script = "app.py" /\ refresh_count = 0

\* _show_welcome is drawn for every page other than login and signup
WelcomeButton(target) ==
    /\ script = "app.py"
    /\ ~authenticated
    /\ page \notin {"login", "signup"}
    /\ page' = target
    /\ clicked' = "welcome_" \o target
    /\ widgets' = NoWidgets
    /\ message' = ""
    /\ UNCHANGED <<accountsFile, authenticated, login_error>>
    /\ view' = Dispatch(authenticated', page')
    /\ UNCHANGED <<script, refresh_count>>
    /\ UNCHANGED <<pipeVars, storeVars, cmcVars, chartVars>>

Welcome == \E target \in {"login", "signup"} : WelcomeButton(target)

SignIn(username, password) ==
    LET accs == load_accounts(accountsFile)
        admin == username = USERNAME /\ password = PASSWORD
        ok == \/ admin
              \/ \E i \in DOMAIN accs.value :
                     /\ Get(accs.value[i], "email", NoneStr) = username
                     /\ Get(accs.value[i], "pw", NoneStr) = hash_pw(password)
    IN  /\ script = "app.py"
        /\ ~authenticated
        /\ page = "login"
        /\ widgets' = [NoWidgets EXCEPT !.su = username, !.sp = password]
        /\ clicked' = "Sign in"
        /\ IF ~admin /\ accs.exc # "none"
           THEN /\ message' = accs.exc
                /\ UNCHANGED <<authenticated, login_error, page>>
           ELSE IF ok
           THEN /\ authenticated' = TRUE
                /\ login_error' = ""
                /\ page' = "dashboard"
                /\ message' = ""
           ELSE /\ login_error' = "Invalid credentials"
                /\ message' = "Invalid credentials"
                /\ UNCHANGED <<authenticated, page>>
        /\ UNCHANGED accountsFile
        /\ view' = Dispatch(authenticated', page')
        /\ UNCHANGED <<script, refresh_count>>
        /\ UNCHANGED <<pipeVars, storeVars, cmcVars, chartVars>>

ShowLogin == \E username \in Emails, password \in Passwords : SignIn(username, password)

SignUp(email, pw1, pw2, outcome) ==
    /\ script = "app.py"
    /\ ~authenticated
    /\ page = "signup"
    /\ widgets' = [NoWidgets EXCEPT !.reg_email = email, !.reg_pw1 = pw1,
                                     !.reg_pw2 = pw2]
    /\ clicked' = "Sign up"
    /\ UNCHANGED login_error
    /\ IF email = "" \/ pw1 = "" \/ pw2 = ""
       THEN /\ message' = "All fields are required."
            /\ UNCHANGED <<accountsFile, authenticated, page>>
       ELSE IF pw1 # pw2
       THEN /\ message' = "Passwords do not match."
            /\ UNCHANGED <<accountsFile, authenticated, page>>
       ELSE \E r \in {save_account(accountsFile, email, hash_pw(pw1), outcome)} :
                /\ accountsFile' = r.file
                /\ IF r.exc # "none"
                   THEN /\ message' = r.exc
                        /\ UNCHANGED <<authenticated, page>>
                   ELSE IF ~r.created
                   THEN /\ message' = "Account already exists."
                        /\ UNCHANGED <<authenticated, page>>
                   ELSE /\ message' = "Account created."
                        /\ authenticated' = TRUE
                        /\ page' = "dashboard"
    /\ view' = Dispatch(authenticated', page')
    /\ UNCHANGED <<script, refresh_count>>
    /\ UNCHANGED <<pipeVars, storeVars, cmcVars, chartVars>>

ShowSignup ==
    \E email \in Emails, pw1 \in Passwords, pw2 \in Passwords,
       outcome \in StoreOutcomes : SignUp(email, pw1, pw2, outcome)

\* the sidebar button of the dashboard
Logout ==
    /\ script = "app.py"
    /\ authenticated
    /\ authenticated' = FALSE
    /\ login_error' = ""
    /\ clicked' = "Logout"
    /\ widgets' = NoWidgets
    /\ message' = ""
    /\ UNCHANGED <<accountsFile, page>>
    /\ view' = Dispatch(authenticated', page')
    /\ UNCHANGED <<script, refresh_count>>
    /\ UNCHANGED <<pipeVars, storeVars, cmcVars, chartVars>>

NextAuth == Welcome \/ ShowLogin \/ ShowSignup \/ Logout

SpecAuth == InitAuth /\ [][NextAuth]_vars

(***************************************************************************)
(* A session from its first script run on, under either entry point, with  *)
(* the Refresh buttons of the dashboards.  streamlit_app.py knows the      *)
(* admin pair only and has no page key.                                    *)
(***************************************************************************)
InitSession ==
    /\ PipeIdle /\ userFile = AbsentFile /\ StoreIdle /\ CmcIdle /\ ChartIdle
    /\ accountsFile \in {AbsentFile, [state |-> "bad_utf8"],
                          JsonFile(<<Account("a@x.io", "pw")>>)}
    /\ authenticated = FALSE
    /\ login_error = ""
    /\ page = "welcome"
    /\ widgets = NoWidgets
    /\ clicked = "none"
    /\ message = ""
    /\ script \in {"app.py", "streamlit_app.py"}
    /\ view = IF script = "app.py" THEN Dispatch(FALSE, "welcome") ELSE main(FALSE)
    /\ refresh_count = 0

\* the Refresh button of _show_dashboard
Refresh ==
    /\ refresh_count < MaxRefresh
    /\ script = "app.py"
    /\ authenticated
    /\ refresh_count' = refresh_count + 1
    /\ clicked' = "Refresh"
    /\ widgets' = NoWidgets
    /\ message' = ""
    /\ view' = Dispatch(authenticated, page)
    /\ UNCHANGED <<accountsFile, authenticated, login_error, page, script>>
    /\ UNCHANGED <<pipeVars, storeVars, cmcVars, chartVars>>

\* the Login button of show_login
Login(username, password) ==
    /\ script = "streamlit_app.py"
    /\ ~authenticated
    /\ widgets' = [NoWidgets EXCEPT !.login_username = username,
                                     !.login_password = password]
    /\ clicked' = "Login"
    /\ IF username = USERNAME /\ password = PASSWORD
       THEN /\ authenticated' = TRUE
            /\ login_error' = ""
            /\ message' = ""
       ELSE /\ authenticated' = FALSE
            /\ login_error' = "Invalid credentials"
            /\ message' = "Invalid credentials"
    /\ view' = main(authenticated')
    /\ UNCHANGED <<accountsFile, page, script, refresh_count>>
    /\ UNCHANGED <<pipeVars, storeVars, cmcVars, chartVars>>

\* the Logout and "Refresh data" buttons of show_dashboard
DashboardButton(button) ==
    /\ script = "streamlit_app.py"
    /\ authenticated
    /\ button = "Refresh data" => refresh_count < MaxRefresh
    /\ authenticated' = (button # "Logout")
    /\ login_error' = IF button = "Logout" THEN "" ELSE login_error
    /\ refresh_count' = IF button = "Logout" THEN refresh_count ELSE refresh_count + 1
    /\ clicked' = button
    /\ widgets' = NoWidgets
    /\ message' = ""
    /\ view' = main(authenticated')
    /\ UNCHANGED <<accountsFile, page, script>>
    /\ UNCHANGED <<pipeVars, storeVars, cmcVars, chartVars>>

NextSession ==
    \/ Welcome
    \/ ShowLogin
    \/ ShowSignup
    \/ Logout
    \/ Refresh
    \/ \E username \in Emails, password \in Passwords : Login(username, password)
    \/ DashboardButton("Logout")
    \/ DashboardButton("Refresh data")

SpecSession == InitSession /\ [][NextSession]_vars

(***************************************************************************)
(* save_account called by sessions that run at the same time: Streamlit    *)
(* runs the script of each session in a thread of its own, and nothing     *)
(* locks ACCOUNTS_FILE.  A call is three steps on the file: the read of    *)
(* load_accounts, the open(..., "w") that truncates, and the write that    *)
(* json.dump's buffer makes when the with block closes the file.           *)
(***************************************************************************)
RaceEmails == {"a@x.io", "b@x.io"}

\* the two sessions
Sessions == {1, 2}

\* a file just truncated: json.load finds no document in it
EmptyFile == [state |-> "empty"]

\* the write of the text of mine at offset 0 of a file that another session
\* wrote after this one truncated it; the file keeps as its tail what the
\* old text has beyond the length of the new one, and the texts of lists
\* of as many accounts are as long, the emails being of one length
Overlay_merged(existing, mine) ==
    IF existing.state = "json"
    THEN JsonFile(existing.entries \o <<mine[Len(mine)]>>)
    ELSE JsonFile(mine)

Overlay(existing, mine) ==
    IF existing.state = "json" /\ Len(existing.entries) > Len(mine)
    THEN [state |-> "bad_json"]
    ELSE JsonFile(mine)

Finished(pc) == pc \in {"done", "refused", "raised"}

InitRace ==
    /\ PipeIdle /\ userFile = AbsentFile /\ CmcIdle /\ ChartIdle
    /\ loaded = Unset /\ submitted = <<>>
    /\ authenticated = FALSE /\ login_error = "" /\ page = "signup"
    /\ widgets = NoWidgets /\ clicked = "none" /\ message = ""
    /\ view = "signup" /\ script = "app.py" /\ refresh_count = 0
    /\ accountsFile \in {AbsentFile, JsonFile(<<>>),
                          JsonFile(<<Account("c@x.io", "pw")>>)}
    /\ sess \in [Sessions ->
                    [pc : {"call"}, email : RaceEmails, accounts : {<<>>},
                     after : {{}}]]

raceRest == <<pipeVars, loaded, submitted, authenticated, login_error, page,
              widgets, clicked, message, view, script, refresh_count, cmcVars,
              chartVars>>

\* accounts = load_accounts(); the test for the email; accounts.append(...).
\* The field after keeps the sessions whose call was over at this read.
SessLoad(i) ==
    LET l == load_accounts(accountsFile)
        dup == \E k \in DOMAIN l.value : Get(l.value[k], "email", NoneStr) = sess[i].email
    IN  /\ sess[i].pc = "call"
        /\ sess' = [sess EXCEPT ![i] =
               [pc |-> IF l.exc # "none" THEN "raised"
                       ELSE IF dup THEN "refused" ELSE "appended",
                email |-> sess[i].email,
                accounts |-> IF l.exc # "none" \/ dup THEN <<>>
                             ELSE Append(l.value, [email |-> sess[i].email,
                                                   pw |-> hash_pw("pw")]),
                after |-> {j \in Sessions : j # i /\ Finished(sess[j].pc)}]]
        /\ UNCHANGED <<accountsFile, raceRest>>

\* open(ACCOUNTS_FILE, "w", encoding="utf-8")
SessOpen(i, outcome) ==
    /\ sess[i].pc = "appended"
    /\ IF outcome = "ok"
       THEN /\ accountsFile' = EmptyFile
            /\ sess' = [sess EXCEPT ![i].pc = "opened"]
       ELSE /\ accountsFile' = accountsFile
            /\ sess' = [sess EXCEPT ![i].pc = "raised"]
    /\ UNCHANGED raceRest

\* json.dump(accounts, f, indent=2) and the close of the file; return True
SessDump(i, outcome) ==
    /\ sess[i].pc = "opened"
    /\ IF outcome = "ok"
       THEN /\ accountsFile' = Overlay(accountsFile, sess[i].accounts)
            /\ sess' = [sess EXCEPT ![i].pc = "done"]
       ELSE /\ accountsFile' = accountsFile
            /\ sess' = [sess EXCEPT ![i].pc = "raised"]
    /\ UNCHANGED raceRest

NextRace ==
    \/ \E i \in Sessions : SessLoad(i)
    \/ \E i \in Sessions, outcome \in {"ok", "failed"} : SessOpen(i, outcome)
    \/ \E i \in Sessions, outcome \in {"ok", "failed"} : SessDump(i, outcome)

SpecRace == InitRace /\ [][NextRace]_vars

(***************************************************************************)
(* Properties.                                                             *)
(***************************************************************************)
\* the entries in the user store
StoredEntries == IF userFile.state = "json" THEN userFile.entries ELSE <<>>

\* the API part of the last get_combined_data
ApiPart == IF fetched.exc = "none" THEN fetched.value ELSE <<>>

\* the last get_combined_data got through the user loop
MergeReached ==
    /\ runs > 0
    /\ fetched.exc \in CaughtByCombined \cup {"none"}
    /\ raised # "UnicodeDecodeError"

DataLines(file) == SelectSeq(file, LAMBDA l : l.kind = "row")

RECURSIVE VolumeSum(_, _)
VolumeSum(rows, n) ==
    IF n = 0 THEN 0 ELSE rows[n].volume + VolumeSum(rows, n - 1)

RECURSIVE ChangeSum(_, _)
ChangeSum(rows, n) ==
    IF n = 0 THEN 0
    ELSE (IF rows[n].change = None THEN 0 ELSE rows[n].change) + ChangeSum(rows, n - 1)

NoNaN(rows) == \A i \in DOMAIN rows : rows[i].change # None

\* the first row, in input order, whose change is the largest (smallest)
FirstMax(rows) ==
    CHOOSE i \in DOMAIN rows :
        /\ \A j \in DOMAIN rows : rows[i].change >= rows[j].change
        /\ \A j \in 1..(i - 1) : rows[j].change # rows[i].change

FirstMin(rows) ==
    CHOOSE i \in DOMAIN rows :
        /\ \A j \in DOMAIN rows : rows[i].change <= rows[j].change
        /\ \A j \in 1..(i - 1) : rows[j].change # rows[i].change

\* C1: after any sequence of dashboard runs the history log holds no row
\* whose source is demo.
C1_NoDemoRowLogged ==
    \A i \in DOMAIN historyFile :
        historyFile[i].kind = "row" => historyFile[i].source # "demo"

\* C2: when the primary fetch fails (network, status or JSON error) and no
\* secondary key is configured, get_combined_data does not raise and returns
\* exactly the stored user entries, or the synthetic rows when there are none.
C2_FetchFailureNeverRaises ==
    (runs > 0 /\ fetched.exc \in CaughtByCombined /\ ~cmcKey) =>
        /\ raised = "none"
        /\ IF StoredEntries = <<>>
           THEN /\ Len(data) = Len(Assets)
                /\ \A i \in DOMAIN data : data[i].source = "demo"
           ELSE /\ Len(data) = Len(StoredEntries)
                /\ \A i \in DOMAIN data :
                       /\ data[i].source = "user"
                       /\ data[i].name = StoredEntries[i].name

\* C3: fetch_crypto_data itself never propagates an error to its caller: on
\* a failure it returns an empty sequence.
C3_FetchNeverPropagates ==
    runs > 0 => fetched.exc = "none"

\* C4: when the history log cannot be written, get_combined_data still
\* returns the snapshot and the dashboard run goes on with it.
C4_LogFailureDoesNotInterrupt ==
    (runs > 0 /\ logExc # "none") =>
        /\ raised = "none"
        /\ rendered
        /\ data # <<>>

\* C5: merging k API rows and m user rows gives k+m rows: the API rows
\* first, unchanged and in their order, each with source api, then one row
\* per user entry in stored order, each with source user; a non-empty merge
\* is what get_combined_data returns.
C5_MergeIsConcatenation ==
    MergeReached =>
        LET k == Len(ApiPart)
            m == Len(StoredEntries)
        IN  /\ Len(merged) = k + m
            /\ \A i \in 1..k :
                   /\ merged[i] = ApiPart[i]
                   /\ merged[i].source = "api"
            /\ \A j \in 1..m :
                   /\ merged[k + j].source = "user"
                   /\ merged[k + j].name = StoredEntries[j].name
                   /\ merged[k + j].price = StoredEntries[j].price
                   /\ merged[k + j].change = StoredEntries[j].change
                   /\ merged[k + j].volume = StoredEntries[j].volume
            /\ (raised = "none" /\ merged # <<>>) => data = merged

\* an API row and a user row of the same symbol both stand in a returned merge
C5_SameSymbolKept ==
    /\ MergeReached
    /\ raised = "none"
    /\ Len(ApiPart) >= 1
    /\ Len(StoredEntries) >= 2
    /\ \E i \in 1..Len(ApiPart), j \in (Len(ApiPart) + 1)..Len(data) :
           /\ data[i].symbol = data[j].symbol
           /\ data[i].source = "api"
           /\ data[j].source = "user"

\* C6: on a non-empty snapshot top_gainer has the largest change and
\* top_loser the smallest, each being the first such row in input order; on
\* an empty snapshot both are None.
C6_FirstExtremeRow ==
    (stats # Unset /\ NoNaN(data)) =>
        IF data = <<>>
        THEN stats.top_gainer = NoRow /\ stats.top_loser = NoRow
        ELSE /\ \A i \in DOMAIN data : stats.top_gainer.change >= data[i].change
             /\ \A i \in DOMAIN data : stats.top_loser.change <= data[i].change
             /\ stats.top_gainer.name = data[FirstMax(data)].name
             /\ stats.top_loser.name = data[FirstMin(data)].name

\* C7, as claimed: total_volume is the sum of the rows' volumes, and is 0
\* exactly when the snapshot is empty.
C7_TotalVolumeIsSum ==
    stats # Unset =>
        /\ stats.total_volume * VolDen = VolumeSum(data, Len(data))
        /\ (stats.total_volume = 0 <=> data = <<>>)

\* C7, amended: total_volume is the sum of the rows' volumes truncated to a
\* whole number, and is 0 when the snapshot is empty.
C7_TotalVolumeIsTruncatedSum ==
    stats # Unset =>
        /\ stats.total_volume * VolDen <= VolumeSum(data, Len(data))
        /\ VolumeSum(data, Len(data)) < (stats.total_volume + 1) * VolDen
        /\ (data = <<>> => stats.total_volume = 0)

\* a non-empty snapshot of positive volume whose total_volume is 0
C7_ZeroTotalNonEmpty ==
    /\ stats # Unset
    /\ data # <<>>
    /\ VolumeSum(data, Len(data)) > 0
    /\ stats.total_volume = 0

\* C8, as claimed: avg_change is the arithmetic mean of the changes, a null
\* change counting as 0; it is 0 on an empty snapshot; count is the number
\* of rows.
C8_AvgChangeIsMean ==
    stats # Unset =>
        /\ stats.avg_change * Len(data) = 100 * ChangeSum(data, Len(data))
        /\ (data = <<>> => stats.avg_change = 0)
        /\ stats.count = Len(data)

\* C8, amended: avg_change is that mean rounded to two decimal places (a
\* tie to the even hundredth).
C8_AvgChangeIsRoundedMean ==
    stats # Unset =>
        LET n == Len(data)
            e == stats.avg_change * n - 100 * ChangeSum(data, n)
        IN  /\ 2 * Abs(e) <= n
            /\ (n > 0 /\ 2 * Abs(e) = n) => stats.avg_change % 2 = 0
            /\ (data = <<>> => stats.avg_change = 0)
            /\ stats.count = n

\* a snapshot with a null change whose mean is not a whole hundredth
C8_NullCountedAndRounded ==
    /\ stats # Unset
    /\ \E i \in DOMAIN data : data[i].change = None
    /\ stats.avg_change * Len(data) # 100 * ChangeSum(data, Len(data))

\* C9: the records of the log are, in order, the rows of every snapshot
\* whose log_history call completed, each with the timestamp of its call:
\* a call appends one record per row and changes no earlier record.
C9_LogIsConcatenationOfSnapshots ==
    LET rows == DataLines(historyFile)
    IN  /\ Len(rows) = Len(logged)
        /\ \A i \in DOMAIN rows :
               /\ rows[i].time = logged[i][1]
               /\ rows[i].name = logged[i][2].name
               /\ rows[i].symbol = logged[i][2].symbol
               /\ rows[i].price = logged[i][2].price
               /\ rows[i].change = logged[i][2].change
               /\ rows[i].volume = logged[i][2].volume
               /\ rows[i].source = logged[i][2].source

\* a second snapshot logged, at a later second, after an earlier one
C9_SecondSnapshotAppended ==
    /\ runs >= 2
    /\ raised = "none"
    /\ Len(logged) > Len(data)
    /\ logged[1][1] # logged[Len(logged)][1]

\* C10: starting from an absent file, the header is the first line of the
\* file and no other line is a header.
C10_HeaderOnceAtTop ==
    historyFile # <<>> =>
        /\ historyFile[1] = HeaderLine
        /\ \A i \in 2..Len(historyFile) : historyFile[i].kind = "row"

\* C11: after any number of appends the store loads as exactly the entries
\* appended, in submission order; a later append drops none of them.
C11_AppendsLoadInOrder ==
    (loaded # Unset /\ loaded.exc = "none") => loaded.value = submitted

\* C12: load_user_data returns an empty list, and does not raise, whenever
\* the file is absent or cannot be parsed.
C12_UnparseableLoadsEmpty ==
    (loaded # Unset /\ userFile.state # "json") =>
        loaded.exc = "none" /\ loaded.value = <<>>

\* the accounts in the account file
StoredAccounts == IF accountsFile.state = "json" THEN accountsFile.entries ELSE <<>>

\* the sign-up just submitted fails validation: an empty field, two
\* different passwords, or an email that has an account
SignupInvalid ==
    \/ widgets'.reg_email = "" \/ widgets'.reg_pw1 = "" \/ widgets'.reg_pw2 = ""
    \/ widgets'.reg_pw1 # widgets'.reg_pw2
    \/ \E i \in DOMAIN StoredAccounts : StoredAccounts[i].email = widgets'.reg_email

\* C13: a sign-up that fails validation shows a message and writes nothing:
\* the account file, with the digests in it, is as before and the session is
\* not authenticated.
C13_FailedSignupWritesNothing ==
    [][(clicked' = "Sign up" /\ SignupInvalid) =>
          /\ accountsFile' = accountsFile
          /\ authenticated' = FALSE
          /\ page' = page
          /\ message' \in {"All fields are required.", "Passwords do not match.",
                            "Account already exists."}]_vars

\* a sign-up for an email that has an account, with another password, refused
C13_DuplicateRefused ==
    /\ clicked = "Sign up"
    /\ message = "Account already exists."
    /\ ~authenticated
    /\ \E i \in DOMAIN StoredAccounts :
           /\ StoredAccounts[i].email = widgets.reg_email
           /\ StoredAccounts[i].pw # hash_pw(widgets.reg_pw1)

\* C14: a sign-in succeeds exactly when the pair is the admin pair or the
\* account list has the username with the digest of the password; any other
\* attempt leaves the session unauthenticated with 'Invalid credentials'.
C14_SignInIffValid ==
    clicked = "Sign in" =>
        LET valid ==
                \/ widgets.su = USERNAME /\ widgets.sp = PASSWORD
                \/ \E i \in DOMAIN StoredAccounts :
                       /\ StoredAccounts[i].email = widgets.su
                       /\ StoredAccounts[i].pw = hash_pw(widgets.sp)
        IN  /\ authenticated <=> valid
            /\ ~authenticated => login_error = "Invalid credentials"

\* C15: every row of the synthetic fallback has source demo, a price of at
\* least 0.01 and a change within [-12, 12]; the fallback is never empty, so
\* the snapshot a run displays is never empty.
C15_DemoRowsWithinBounds ==
    (runs > 0 /\ raised = "none") =>
        /\ rendered
        /\ Len(data) = Len(Assets)
        /\ \A i \in DOMAIN data :
               /\ data[i].source = "demo"
               /\ data[i].price >= 1
               /\ data[i].change >= -12
               /\ data[i].change <= 12

\* a synthetic row whose change was clamped at each end
C15_ChangeClamped ==
    /\ rendered
    /\ \E i, j \in DOMAIN data :
           /\ data[i].source = "demo" /\ data[i].change = 12
           /\ data[j].source = "demo" /\ data[j].change = -12

\* the secondary provider has a key and answers with at least one listing
SecondaryYields ==
    /\ cmcKey
    /\ cmcListing.kind = "ok"
    /\ Get(cmcListing.body, "data", <<>>) # <<>>

\* C16: a fetch returns at most PerPage quotes, whatever the number of
\* records in the provider's response.
C16_AtMostLimitQuotes ==
    /\ fetched # Unset => Len(fetched.value) <= PerPage
    /\ (top # Unset /\ top.rows[1].source = "cmc") => Len(top.rows) <= PerPage

\* C17: when the primary provider fails or yields nothing, the snapshot
\* holds synthetic rows only if the secondary provider has no key or yields
\* no data either.
C17_SecondaryBeforeSynthetic ==
    (runs > 0 /\ raised = "none" /\ ApiPart = <<>>
        /\ \E i \in DOMAIN data : data[i].source = "demo") => ~SecondaryYields

LowerCaseLetters ==
    {"a", "b", "c", "d", "e", "g", "h", "l", "o", "p", "r", "s", "t", "x"}

IsUpperCase(sym) == \A i \in DOMAIN sym : sym[i] \notin LowerCaseLetters

\* C18: every row of every snapshot, API, user or demo, has an upper-case
\* symbol, and the history log holds that same symbol for the row.
C18_SymbolsUppercase ==
    /\ \A i \in DOMAIN merged : IsUpperCase(merged[i].symbol)
    /\ \A i \in DOMAIN data : IsUpperCase(data[i].symbol)
    /\ LET rows == DataLines(historyFile)
       IN  \A i \in DOMAIN rows :
               /\ IsUpperCase(rows[i].symbol)
               /\ i <= Len(logged) => rows[i].symbol = logged[i][2].symbol

\* a stored entry 'doge' and an API record 'btc' logged as DOGE and BTC
C18_LowerCaseIngested ==
    /\ \E i \in DOMAIN StoredEntries : StoredEntries[i].symbol = <<"d", "o", "g", "e">>
    /\ \E i \in DOMAIN historyFile :
           /\ historyFile[i].kind = "row"
           /\ historyFile[i].source = "user"
           /\ historyFile[i].symbol = <<"D", "O", "G", "E">>
    /\ \E i \in DOMAIN historyFile :
           /\ historyFile[i].kind = "row"
           /\ historyFile[i].source = "api"
           /\ historyFile[i].symbol = <<"B", "T", "C">>

\* the price at index i (0-based) is above (below) the price at every index
\* of P that the series has
Above(i, P) ==
    \A j \in P : (j + 1 \in DOMAIN series) => Gt(series[i + 1], series[j + 1])
Below(i, P) ==
    \A j \in P : (j + 1 \in DOMAIN series) => Lt(series[i + 1], series[j + 1])

\* the indices 2 .. n-3 of the series
Eligible == {i \in 0..(Len(series) - 1) : 2 <= i /\ i <= Len(series) - 3}

\* every price from index i-2 to index i+2 is a number
NumericWindow(i) == \A j \in (i - 2)..(i + 2) : series[j + 1] # None

\* C19, as claimed: an eligible point is a peak exactly when its price is
\* above the two preceding and the three following points, and a valley
\* exactly when it is below them.
C19_PeakAgainstThreeFollowing ==
    flags # Unset =>
        \A i \in Eligible :
            (\A k \in DOMAIN series : series[k] # None) =>
                /\ flags.is_peak[i + 1] <=>
                       (Above(i, {i - 2, i - 1}) /\ Above(i, {i + 1, i + 2, i + 3}))
                /\ flags.is_valley[i + 1] <=>
                       (Below(i, {i - 2, i - 1}) /\ Below(i, {i + 1, i + 2, i + 3}))

\* C19, amended: an eligible point whose window holds numbers is a peak
\* exactly when its price is above the two preceding and the two following
\* points, and a valley exactly when it is below them.
C19_PeakAgainstTwoFollowing ==
    flags # Unset =>
        \A i \in Eligible :
            NumericWindow(i) =>
                /\ flags.is_peak[i + 1] <=>
                       (Above(i, {i - 2, i - 1}) /\ Above(i, {i + 1, i + 2}))
                /\ flags.is_valley[i + 1] <=>
                       (Below(i, {i - 2, i - 1}) /\ Below(i, {i + 1, i + 2}))

\* a peak at index 2 although the point at index 5 is as high
C19_PeakDespiteThirdFollowing ==
    /\ flags # Unset
    /\ Len(series) = 6
    /\ \A k \in DOMAIN series : series[k] # None
    /\ flags.is_peak[3]
    /\ series[6] >= series[3]

\* C20: only the indices 2 .. n-3 are ever flagged: never the first two or
\* the last two points, and no point of a series shorter than five.
C20_EdgesNeverFlagged ==
    flags # Unset =>
        /\ \A k \in DOMAIN series :
               (flags.is_peak[k] \/ flags.is_valley[k]) => k - 1 \in Eligible
        /\ Len(series) < 5 =>
               \A k \in DOMAIN series : ~flags.is_peak[k] /\ ~flags.is_valley[k]

\* both ends of the eligible range flagged: a peak at index 2 and a valley
\* at index n-3 of a six-point series
C20_BothEndsOfRangeFlagged ==
    /\ flags # Unset
    /\ Len(series) = 6
    /\ flags.is_peak[3]
    /\ flags.is_valley[4]

\* the series rises strictly up to index m (0-based) and falls strictly
\* after it; it falls strictly down to index m and rises strictly after it
RisesThenFalls(m) ==
    /\ \A k \in 1..(Len(series) - 1) :
           IF k <= m THEN series[k] < series[k + 1] ELSE series[k] > series[k + 1]
FallsThenRises(m) ==
    /\ \A k \in 1..(Len(series) - 1) :
           IF k <= m THEN series[k] > series[k + 1] ELSE series[k] < series[k + 1]

\* the indices of the series, and those strictly inside it
Indices == 0..(Len(series) - 1)
Interior == 1..(Len(series) - 2)

\* the flagged indices
Peaks == {i \in Indices : flags.is_peak[i + 1]}
Valleys == {i \in Indices : flags.is_valley[i + 1]}

\* the eligible indices whose price no eligible index exceeds (undercuts)
EligibleMaxima ==
    {i \in Eligible : \A j \in Eligible : series[j + 1] <= series[i + 1]}
EligibleMinima ==
    {i \in Eligible : \A j \in Eligible : series[j + 1] >= series[i + 1]}

\* C21, as claimed: a series of five points or more that rises strictly to
\* an interior point and falls strictly after it gets exactly one peak flag,
\* at the highest eligible point; a series that falls and then rises gets
\* exactly one valley flag, at the lowest eligible point.
C21_UnimodalOneFlag ==
    (flags # Unset /\ Len(series) >= 5) =>
        /\ (\E m \in Interior : RisesThenFalls(m)) =>
               (Cardinality(Peaks) = 1 /\ Peaks \subseteq EligibleMaxima)
        /\ (\E m \in Interior : FallsThenRises(m)) =>
               (Cardinality(Valleys) = 1 /\ Valleys \subseteq EligibleMinima)

\* C21, amended: a series of five points or more that rises strictly to the
\* point m and falls strictly after it has its peak flag at m and nowhere
\* else when m is one of the indices 2 .. n-3, and has no peak flag when m
\* is one of the first two or the last two points; a flagged m is the
\* highest eligible point.  The same holds of valley flags for a series
\* that falls strictly to m and rises strictly after it.
C21_UnimodalFlagAtEligibleMode ==
    (flags # Unset /\ Len(series) >= 5) =>
        \A m \in Indices :
            /\ RisesThenFalls(m) =>
                   /\ Peaks = {m} \cap Eligible
                   /\ Peaks \subseteq EligibleMaxima
            /\ FallsThenRises(m) =>
                   /\ Valleys = {m} \cap Eligible
                   /\ Valleys \subseteq EligibleMinima

\* a six-point series that rises to index 3 and falls after it, flagged
\* there and nowhere else
C21_PeakAtEligibleMode ==
    /\ flags # Unset
    /\ Len(series) = 6
    /\ RisesThenFalls(3)
    /\ Peaks = {3}

\* the bin labels that hold a sample, and those that hold a sample with a
\* numeric price
SampleBins ==
    {BinLabel(samples[k].time, ResamplePeriod(Len(samples))) : k \in DOMAIN samples}
PricedBins ==
    {BinLabel(samples[k].time, ResamplePeriod(Len(samples))) :
        k \in {j \in DOMAIN samples : samples[j].price # None}}

\* the positions of the priced samples of bin b, in time order
PricedIn(b) ==
    {k \in DOMAIN samples :
        /\ BinLabel(samples[k].time, ResamplePeriod(Len(samples))) = b
        /\ samples[k].price # None}

\* row r of the frame is the open, high, low and close of the priced samples
\* of its bin
RowIsOhlcOf(r, b) ==
    LET P == PricedIn(b)
        first == CHOOSE k \in P : \A j \in P : k <= j
        last == CHOOSE k \in P : \A j \in P : k >= j
    IN  /\ r.time = b
        /\ r.open = samples[first].price
        /\ r.close = samples[last].price
        /\ \E k \in P : r.high = samples[k].price
        /\ \A k \in P : r.high >= samples[k].price
        /\ \E k \in P : r.low = samples[k].price
        /\ \A k \in P : r.low <= samples[k].price

\* the frame has exactly one row per bin of B, in time order, each the OHLC
\* of its bin, and a bin of constant price has open = high = low = close
FrameCovers(B) ==
    /\ {ohlc.rows[k].time : k \in DOMAIN ohlc.rows} = B
    /\ Len(ohlc.rows) = Cardinality(B)
    /\ \A k \in 1..(Len(ohlc.rows) - 1) : ohlc.rows[k].time < ohlc.rows[k + 1].time
    /\ \A k \in DOMAIN ohlc.rows :
           LET r == ohlc.rows[k]
           IN  /\ PricedIn(r.time) # {} => RowIsOhlcOf(r, r.time)
               /\ (\A i, j \in PricedIn(r.time) :
                       samples[i].price = samples[j].price) =>
                      (r.open = r.high /\ r.high = r.low /\ r.low = r.close)

\* C22, as claimed: the frame has one row for each bucket that holds at
\* least one sample, with open, high, low and close the first, largest,
\* smallest and last price of the bucket, and no row for any other bucket.
C22_RowPerBucketWithSample ==
    ohlc # Unset => FrameCovers(SampleBins)

\* C22, amended: the frame has one row for each bucket that holds at least
\* one sample with a numeric price, with open, high, low and close the
\* first, largest, smallest and last numeric price of the bucket; a bucket
\* with no sample, or whose samples all lack a numeric price, has no row;
\* a bucket of constant price has open = high = low = close.
C22_RowPerBucketWithPrice ==
    ohlc # Unset => FrameCovers(PricedBins)

\* two candles with an empty bucket between them, the first opening on the
\* second sample of its bucket because the first sample has no price
C22_OpenSkipsUnpricedSample ==
    /\ ohlc # Unset
    /\ Len(samples) = 3
    /\ samples[1].price = None /\ samples[1].time = 0
    /\ samples[2].price # None /\ samples[2].time = 5
    /\ samples[3].price # None /\ samples[3].time >= 20
    /\ Len(ohlc.rows) = 2
    /\ ohlc.rows[1].open = samples[2].price

\* the time points at which every symbol of S has a return value
AlignedPoints(S) ==
    LET times == PivotTimes(all_df)
    IN  {k \in DOMAIN times :
            \A sym \in S : HasReturn(all_df, times, sym, k, padFill)}

\* C23: with fewer than two time points at which every selected symbol has
\* a return, the correlation step shows the insufficient-data notice and no
\* matrix.
C23_NoMatrixBelowTwoPoints ==
    (corr # Unset /\ Cardinality(AlignedPoints(sel)) < 2) =>
        corr.shown = "info"

\* the file holds an account of the email of session i
Holds(i) ==
    /\ accountsFile.state = "json"
    /\ \E k \in DOMAIN accountsFile.entries :
           accountsFile.entries[k].email = sess[i].email

\* the file holds the accounts that sessions i and j added, one entry each
HoldsBoth(i, j) ==
    /\ accountsFile.state = "json"
    /\ \E k, m \in DOMAIN accountsFile.entries :
           /\ k # m
           /\ accountsFile.entries[k].email = sess[i].email
           /\ accountsFile.entries[m].email = sess[j].email

\* C24: when two sessions have both completed their read-modify-write of
\* the accounts file and the file holds the accounts of both, one of them
\* read the file only after the other had finished: the two were serialized.
\* In any other interleaving at most one of the two new accounts is kept.
C24_BothKeptOnlyIfSerialized ==
    \A i, j \in Sessions :
        (i # j /\ sess[i].pc = "done" /\ sess[j].pc = "done" /\ HoldsBoth(i, j)) =>
            (j \in sess[i].after \/ i \in sess[j].after)

\* the lost update: two sessions with different emails both returned True,
\* neither read after the other had finished, and the file is the list of
\* one of them, without the account of the other
C24_LastWriterWins ==
    \E i, j \in Sessions :
        /\ i # j
        /\ sess[i].email # sess[j].email
        /\ sess[i].pc = "done" /\ sess[j].pc = "done"
        /\ j \notin sess[i].after /\ i \notin sess[j].after
        /\ accountsFile = JsonFile(sess[j].accounts)
        /\ ~Holds(i)

\* the event that ended in the primed state is a sign-in with a valid pair
\* or a sign-up that created its account
SignedIn ==
    \/ /\ clicked' = "Sign in"
       /\ \/ widgets'.su = USERNAME /\ widgets'.sp = PASSWORD
          \/ \E k \in DOMAIN StoredAccounts :
                 StoredAccounts[k] = Account(widgets'.su, widgets'.sp)
    \/ /\ clicked' = "Login"
       /\ widgets'.login_username = USERNAME
       /\ widgets'.login_password = PASSWORD
SignedUp ==
    /\ clicked' = "Sign up"
    /\ message' = "Account created."
    /\ accountsFile'.state = "json"
    /\ \E k \in DOMAIN accountsFile'.entries :
           accountsFile'.entries[k] = Account(widgets'.reg_email, widgets'.reg_pw1)

\* C25: the dashboard is on the screen only while authenticated is true;
\* the flag is false before the first event, turns true only with a
\* successful sign-in or sign-up, and the render that follows a Logout is
\* not the dashboard.
C25_DashboardOnlyWhileAuthenticated ==
    /\ [](view = "dashboard" => authenticated)
    /\ [](clicked = "none" => ~authenticated)
    /\ [][(~authenticated /\ authenticated') => (SignedIn \/ SignedUp)]_vars
    /\ [][clicked' = "Logout" => (~authenticated' /\ view' # "dashboard")]_vars

\* after a Logout of app.py the page key still says dashboard and the
\* welcome page is on the screen
C25_LoggedOutSeesWelcome ==
    /\ script = "app.py"
    /\ clicked = "Logout"
    /\ page = "dashboard"
    /\ ~authenticated
    /\ view = "welcome"

====
